---- MODULE Spec2Model ----
(***************************************************************************)
(* The AI provider routing layer of PatientSystem (src/ai/router.py with   *)
(* src/utils/error_handler.py, src/utils/exceptions.py and the provider    *)
(* clients of src/ai/): AIRouter.route, its retry wrapper _try_provider,   *)
(* AIRouter.health_check_all, the factory create_ai_router and the         *)
(* complete method of the provider clients.                                *)
(*                                                                         *)
(* Concurrency is asyncio's: one event loop, a task runs until it awaits   *)
(* network I/O or a sleep.  The variable running holds the task that owns  *)
(* the loop (0 when the loop is idle), so every action is one run of a     *)
(* task between two suspension points (or a part of such a run).           *)
(***************************************************************************)
EXTENDS Integers, Sequences, FiniteSets, TLC

\* Number of route calls that may be in flight on one router (model bound).
NumCalls == 2

Tasks == 1..NumCalls

\* Python's None.
None == "None"

\* ------------------------------------------------------------------------
\* Provider identities, clients, tiers

\* Keys of AIRouter.clients, in the dict's insertion order.
ProviderKeys == <<"ollama", "claude", "gpt-5", "gpt-5-mini", "gemini">>

Providers == {ProviderKeys[i] : i \in 1..Len(ProviderKeys)}

\* The four client objects a router can hold.
ClientNames == {"OllamaClient", "AnthropicClient", "OpenAIClient", "GoogleClient"}

\* AIRouter.__init__: the registry built from the four optional clients;
\* "gpt-5" and "gpt-5-mini" hold the same OpenAI client.
AIRouterClients(constructed) ==
    [p \in Providers |->
        LET c == CASE p = "ollama" -> "OllamaClient"
                   [] p = "claude" -> "AnthropicClient"
                   [] p = "gpt-5" -> "OpenAIClient"
                   [] p = "gpt-5-mini" -> "OpenAIClient"
                   [] p = "gemini" -> "GoogleClient"
        IN IF c \in constructed THEN c ELSE None]

\* The provider="..." label each client writes into its AIResponse and its
\* AIProviderError.
ProviderLabel(c) ==
    CASE c = "OllamaClient" -> "ollama"
      [] c = "AnthropicClient" -> "anthropic"
      [] c = "OpenAIClient" -> "openai"
      [] c = "GoogleClient" -> "google"

TaskComplexity == {"simple", "moderate", "complex"}

TASK_COMPLEXITY_MAP ==
    [k \in {"patient_summary", "basic_stats", "recent_visits",
            "lab_trend_analysis", "medication_adherence", "visit_patterns",
            "differential_diagnosis", "treatment_planning",
            "drug_interactions", "risk_stratification"} |->
        CASE k \in {"patient_summary", "basic_stats", "recent_visits"} -> "simple"
          [] k \in {"lab_trend_analysis", "medication_adherence", "visit_patterns"} -> "moderate"
          [] OTHER -> "complex"]

MODEL_PRIORITY ==
    [c \in TaskComplexity |->
        CASE c = "simple" -> <<"ollama">>
          [] c = "moderate" -> <<"ollama", "gpt-5-mini">>
          [] c = "complex" -> <<"claude", "gpt-5", "gemini", "ollama">>]

ClassifyTaskDefaultSimple(task_type) ==
    IF task_type \in DOMAIN TASK_COMPLEXITY_MAP
    THEN TASK_COMPLEXITY_MAP[task_type]
    ELSE "simple"

\* dict.get(task_type, TaskComplexity.MODERATE)
classify_task(task_type) ==
    IF task_type \in DOMAIN TASK_COMPLEXITY_MAP
    THEN TASK_COMPLEXITY_MAP[task_type]
    ELSE "moderate"

WithoutNoFilter(chain, x) == chain

\* [p for p in standard_chain if p != preferred_provider]
Without(chain, x) == SelectSeq(chain, LAMBDA p : p # x)

StandardChainNoDefault(complexity) ==
    IF complexity \in DOMAIN MODEL_PRIORITY
    THEN MODEL_PRIORITY[complexity]
    ELSE <<>>

StandardChainSimpleFallsBack(complexity) ==
    IF complexity = "simple"
    THEN <<"ollama", "claude">>
    ELSE IF complexity \in DOMAIN MODEL_PRIORITY
         THEN MODEL_PRIORITY[complexity]
         ELSE <<"ollama">>

\* self.MODEL_PRIORITY.get(complexity, ["ollama"])
StandardChain(complexity) ==
    IF complexity \in DOMAIN MODEL_PRIORITY
    THEN MODEL_PRIORITY[complexity]
    ELSE <<"ollama">>

GetProviderChainIgnoresPreferred(registry, complexity, preferred_provider) ==
    StandardChain(complexity)

GetProviderChainPreferredLast(registry, complexity, preferred_provider) ==
    IF preferred_provider # None /\ preferred_provider # ""
       /\ preferred_provider \in DOMAIN registry
    THEN Without(StandardChain(complexity), preferred_provider) \o <<preferred_provider>>
    ELSE StandardChain(complexity)

GetProviderChainConfiguredOnly(registry, complexity, preferred_provider) ==
    IF preferred_provider # None /\ preferred_provider # ""
       /\ preferred_provider \in DOMAIN registry
       /\ registry[preferred_provider] # None
    THEN <<preferred_provider>> \o Without(StandardChain(complexity), preferred_provider)
    ELSE StandardChain(complexity)

\* registry is self.clients: membership is tested on its keys.
get_provider_chain(registry, complexity, preferred_provider) ==
    IF preferred_provider # None /\ preferred_provider # ""
       /\ preferred_provider \in DOMAIN registry
    THEN <<preferred_provider>> \o Without(StandardChain(complexity), preferred_provider)
    ELSE StandardChain(complexity)

\* ------------------------------------------------------------------------
\* Responses and exceptions.  A message is a sequence of text pieces, so that
\* f-string interpolation is concatenation and "contains" is a real test.

AIResponse(model, provider) ==
    [kind |-> "response", type |-> "AIResponse", message |-> <<>>,
     provider |-> provider, model |-> model, cause |-> None]

AIProviderError(message, provider) ==
    [kind |-> "exception", type |-> "AIProviderError", message |-> message,
     provider |-> provider, model |-> None, cause |-> None]

TimeoutError(message) ==
    [kind |-> "exception", type |-> "TimeoutError", message |-> message,
     provider |-> None, model |-> None, cause |-> None]

\* Any exception class outside the two hierarchies (a mock's Exception(...),
\* a programming error).
OtherError(message) ==
    [kind |-> "exception", type |-> "Exception", message |-> message,
     provider |-> None, model |-> None, cause |-> None]

\* cause is the class of the chained exception.
AIServiceError(message, provider, cause) ==
    [kind |-> "exception", type |-> "AIServiceError", message |-> message,
     provider |-> provider, model |-> None, cause |-> cause]

NoResult ==
    [kind |-> "none", type |-> None, message |-> <<>>,
     provider |-> None, model |-> None, cause |-> None]

\* The classes an exception of class type is an instance of.  BackendError
\* is the backend library's error base class (httpx.RequestError, APIError,
\* GoogleAPIError) and BackendTimeout its timeout subclass
\* (httpx.TimeoutException, APITimeoutError, DeadlineExceeded).
Bases(type) ==
    CASE type = "AIProviderError" -> {"AIProviderError", "Exception"}
      [] type = "TimeoutError" -> {"TimeoutError", "OSError", "Exception"}
      [] type = "AIServiceError" -> {"AIServiceError", "BasePatientSystemError", "Exception"}
      [] type = "BackendTimeout" -> {"BackendTimeout", "BackendError", "Exception"}
      [] type = "BackendError" -> {"BackendError", "Exception"}
      [] OTHER -> {"Exception"}

IsInstance(e, class) == class \in Bases(e.type)

\* str(e): AIProviderError.__str__ prefixes the provider (no status code is
\* modelled); the other classes print their single argument.
Str(e) ==
    IF e.type = "AIProviderError"
    THEN <<e.provider, ": ">> \o e.message
    ELSE e.message

\* f"AI provider request: {provider_name}"
Operation(provider_name) == <<"AI provider request: ", provider_name>>

\* ErrorHandler.wrap_error for category AI_SERVICE, the only category the
\* router passes.
wrap_error(error, operation) ==
    AIServiceError(<<"AI service error in ">> \o operation \o <<": ">> \o Str(error),
                   None, error.type)

ErrorContextPassThrough(e, operation) == e

\* What leaves the `with error_context(...)` block when e was raised in it.
error_context(e, operation) ==
    IF IsInstance(e, "BasePatientSystemError")
    THEN e
    ELSE wrap_error(e, operation)

\* ------------------------------------------------------------------------
\* tenacity's @retry on _try_provider

\* stop_after_attempt(3)
StopAfterAttempt == 3

RetryIfAlways(e) == TRUE

\* retry_if_exception_type((AIProviderError, TimeoutError))
RetryIf(e) == IsInstance(e, "AIProviderError") \/ IsInstance(e, "TimeoutError")

Min2(a, b) == IF a < b THEN a ELSE b
Max2(a, b) == IF a > b THEN a ELSE b

\* wait_exponential(multiplier=1, min=1, max=10) after attempt number n.
WaitExponential(n) == Max2(1, Min2(1 * 2^(n - 1), 10))

\* ------------------------------------------------------------------------
\* What a client's complete does when it is called.

Outcomes == {"ok", "timeout", "provider_error", "other"}

\* The exception complete raises for a failing outcome.  "other" is a client
\* (a test double) that raises an exception of another class.
CompleteRaises(c, outcome) ==
    CASE outcome = "timeout" -> TimeoutError(<<ProviderLabel(c), " request timeout">>)
      [] outcome = "provider_error" -> AIProviderError(<<ProviderLabel(c), " API error">>, ProviderLabel(c))
      [] OTHER -> OtherError(<<ProviderLabel(c), " unavailable">>)

\* ------------------------------------------------------------------------
\* State

VARIABLES
    clients,            \* AIRouter.clients: provider identity -> client or None
    enable_fallback,    \* AIRouter.enable_fallback
    strategy,           \* AIRouter.strategy
    max_retries,        \* AIRouter.max_retries
    openai_model,       \* the model_name the OpenAI client was constructed with
    model_name,         \* OpenAIClient.model_name, the shared mutable field
    completes,          \* client -> what its complete does when called
    running,            \* the task that owns the event loop, 0 when idle
    pc,                 \* task -> its position in route
    request,            \* task -> the fields of route's request other than its tier
    task_type,          \* task -> route's task_type argument
    preferred_provider, \* task -> route's preferred_provider argument
    task_complexity,    \* task -> request.task_complexity
    provider_chain,     \* task -> route's provider_chain
    idx,                \* task -> position of the for loop in provider_chain
    attempt,            \* task -> tenacity's attempt_number in _try_provider
    errors,             \* task -> route's errors list
    original_model,     \* task -> _try_provider's local original_model
    result,             \* task -> what route returned or raised
    invocations,        \* task -> the complete calls it made, in order
    waits,              \* task -> the backoff sleeps it made, in order
    hc_pc,              \* position of the health_check_all call
    hc_i,               \* position of its loop in the registry
    results,            \* its results dict
    health_checks,      \* the health_check calls it made and how each ended
    fa_pc,              \* position of the create_ai_router call
    enable,             \* client -> its enable_* argument of create_ai_router
    api_key,            \* client -> the configuration holds its API key
    ctor_ok,            \* client -> its constructor returns (does not raise)
    co_pc,              \* position of a complete call made on a client directly
    co_client,          \* the client it is made on
    temperature,        \* its temperature argument
    max_tokens,         \* its max_tokens argument
    self_temperature,   \* the client's self.temperature
    self_max_tokens,    \* the client's self.max_tokens
    sent,               \* the temperature and max_tokens it sent to the backend
    co_raised,          \* the exception raised inside its try block
    co_result           \* what it returned or raised

router_vars == <<clients, enable_fallback, strategy, max_retries, openai_model, completes>>
input_vars == <<request, task_type, preferred_provider>>
route_vars == <<model_name, running, pc, request, task_type, preferred_provider,
                task_complexity, provider_chain, idx, attempt, errors,
                original_model, result, invocations, waits>>
health_vars == <<hc_pc, hc_i, results, health_checks>>
factory_vars == <<fa_pc, enable, api_key, ctor_ok>>
client_vars == <<co_pc, co_client, temperature, max_tokens, self_temperature,
                 self_max_tokens, sent, co_raised, co_result>>
vars == <<clients, enable_fallback, strategy, max_retries, openai_model, model_name,
          completes, running, pc, request, task_type, preferred_provider,
          task_complexity, provider_chain, idx, attempt, errors, original_model,
          result, invocations, waits, hc_pc, hc_i, results, health_checks, fa_pc,
          enable, api_key, ctor_ok, co_pc, co_client, temperature, max_tokens,
          self_temperature, self_max_tokens, sent, co_raised, co_result>>

\* Values of route's task_type argument: absent, one known identifier of each
\* tier, and one identifier that is not in the table.
TaskTypes == {None, "patient_summary", "lab_trend_analysis",
              "differential_diagnosis", "unlisted_task"}

\* Values of route's preferred_provider argument.
PreferredValues == {None, "unregistered"} \cup Providers

\* Model names an OpenAI client is constructed with (settings default,
\* class default, and the alias itself).
OpenAIModels == {"gpt-4o", "gpt-5", "gpt-5-mini"}

\* The provider the task's for loop is at.
provider_name(t) == provider_chain[t][idx[t]]

\* Number of complete calls task t made under provider identity p.
Calls(t, p) == Cardinality({i \in 1..Len(invocations[t]) : invocations[t][i].provider = p})

\* "; ".join(errors)
RECURSIVE Join(_)
Join(msgs) ==
    IF Len(msgs) = 0 THEN <<>>
    ELSE IF Len(msgs) = 1 THEN msgs[1]
    ELSE msgs[1] \o <<"; ">> \o Join(Tail(msgs))

\* part occurs in whole as a contiguous run.
Contains(whole, part) ==
    \E i \in 0..(Len(whole) - Len(part)) :
        \A j \in 1..Len(part) : whole[i + j] = part[j]

\* A router and its environment: which clients were constructed, the flag,
\* the OpenAI model name, and what each constructed client's complete does.
RouterInit(constructed) ==
    /\ clients = AIRouterClients(constructed)
    /\ enable_fallback \in BOOLEAN
    /\ completes \in [ClientNames -> Outcomes \cup {None}]
    /\ \A c \in ClientNames : (completes[c] = None) <=> (c \notin constructed)
    /\ openai_model \in OpenAIModels \cup {None}
    /\ (openai_model = None) <=> ("OpenAIClient" \notin constructed)
    /\ model_name = openai_model
    /\ running = 0

\* Task state before route is called.
CallsInit(active) ==
    /\ pc = [t \in Tasks |-> IF t \in active THEN "call" ELSE "unused"]
    /\ \E tt \in [active -> TaskTypes] :
          task_type = [t \in Tasks |-> IF t \in active THEN tt[t] ELSE None]
    /\ \E pp \in [active -> PreferredValues] :
          preferred_provider = [t \in Tasks |-> IF t \in active THEN pp[t] ELSE None]
    /\ \E tc \in [active -> TaskComplexity] :
          task_complexity = [t \in Tasks |-> IF t \in active THEN tc[t] ELSE "moderate"]
    /\ provider_chain = [t \in Tasks |-> <<>>]
    /\ idx = [t \in Tasks |-> 0]
    /\ attempt = [t \in Tasks |-> 0]
    /\ errors = [t \in Tasks |-> <<>>]
    /\ original_model = [t \in Tasks |-> None]
    /\ result = [t \in Tasks |-> NoResult]
    /\ invocations = [t \in Tasks |-> <<>>]
    /\ waits = [t \in Tasks |-> <<>>]

\* AIRequest(prompt=...): the dataclass with its field defaults.  A
\* temperature is held in tenths (0.5 is 5).
AIRequest(prompt) ==
    [prompt |-> prompt, system_prompt |-> None, temperature |-> 5,
     max_tokens |-> 4096, metadata |-> None]

\* Every route call is given a request with the default fields.
RequestDefault == request = [t \in Tasks |-> AIRequest("prompt")]

\* A router built with the default strategy and max_retries.
SettingsDefault ==
    /\ strategy = "smart"
    /\ max_retries = 3

\* An Optional number: Absent is None, Some(x) is the number x.
Absent == <<>>
Some(x) == <<x>>

\* No complete call made on a client directly.
ClientIdle ==
    /\ co_pc = "unused"
    /\ co_client = None
    /\ temperature = Absent
    /\ max_tokens = Absent
    /\ self_temperature = Absent
    /\ self_max_tokens = Absent
    /\ sent = [temperature |-> Absent, max_tokens |-> Absent]
    /\ co_raised = NoResult
    /\ co_result = NoResult

\* No health_check_all call.
HealthIdle ==
    /\ hc_pc = "unused"
    /\ hc_i = 0
    /\ results = <<>>
    /\ health_checks = <<>>

\* No create_ai_router call: the router was built directly from clients.
FactoryIdle ==
    /\ fa_pc = "unused"
    /\ enable = [c \in ClientNames |-> TRUE]
    /\ api_key = [c \in ClientNames |-> TRUE]
    /\ ctor_ok = [c \in ClientNames |-> TRUE]

\* One route call on any router whose OpenAI client, if any, was constructed
\* with the class default model.
Init ==
    /\ \E constructed \in SUBSET ClientNames : RouterInit(constructed)
    /\ openai_model \in {"gpt-5", None}
    /\ CallsInit({1})
    /\ HealthIdle
    /\ FactoryIdle
    /\ RequestDefault
    /\ SettingsDefault
    /\ ClientIdle

\* ------------------------------------------------------------------------
\* route

RouteComplexityKeepsTier(tt, tier) == tier

\* `if task_type:` the classified tier, else the request's tier.
RouteComplexity(tt, tier) ==
    IF tt # None /\ tt # ""
    THEN classify_task(tt)
    ELSE tier

\* route up to the for loop: classification and chain resolution.
Route(t) ==
    /\ pc[t] = "call"
    /\ running = 0
    /\ LET complexity == RouteComplexity(task_type[t], task_complexity[t])
       IN /\ task_complexity' = [task_complexity EXCEPT ![t] = complexity]
          /\ provider_chain' = [provider_chain EXCEPT
                                  ![t] = get_provider_chain(clients, complexity, preferred_provider[t])]
    /\ errors' = [errors EXCEPT ![t] = <<>>]
    /\ idx' = [idx EXCEPT ![t] = 1]
    /\ attempt' = [attempt EXCEPT ![t] = 1]
    /\ pc' = [pc EXCEPT ![t] = "try"]
    /\ running' = t
    /\ UNCHANGED <<client_vars, router_vars, factory_vars, health_vars, input_vars, model_name, original_model, result,
                   invocations, waits>>

ShouldRetryFive(e, n) == n < 5

ShouldRetryUsesMaxRetries(e, n) == n < max_retries

\* tenacity's decision after attempt number n ended with exception e: call
\* again when the retry predicate holds and the stop condition does not.
ShouldRetry(e, n) == RetryIf(e) /\ n < StopAfterAttempt

RouteExceptSwallows(e, fallback) == "continue"

\* The decision of route's except clause for the exception e that left
\* _try_provider: "reraise" (fallback disabled), "continue", or "propagate"
\* (the clause does not match).
RouteExcept(e, fallback) ==
    IF IsInstance(e, "AIProviderError") \/ IsInstance(e, "TimeoutError")
    THEN IF ~fallback THEN "reraise" ELSE "continue"
    ELSE "propagate"

\* The exception e0 was raised in the body of _try_provider by task t: it
\* passes error_context, then tenacity, then route's except clause.
Raise(t, e0) ==
    LET p == provider_name(t)
        e == error_context(e0, Operation(p))
        decision == RouteExcept(e, enable_fallback)
        errs == Append(errors[t], <<p, ": ">> \o Str(e))
    IN IF ShouldRetry(e, attempt[t])
       THEN \* tenacity sleeps, then calls _try_provider again
            /\ attempt' = [attempt EXCEPT ![t] = @ + 1]
            /\ waits' = [waits EXCEPT ![t] = Append(@, WaitExponential(attempt[t]))]
            /\ pc' = [pc EXCEPT ![t] = "try"]
            /\ running' = 0
            /\ UNCHANGED <<errors, idx, result>>
       ELSE /\ errors' = [errors EXCEPT ![t] = IF decision = "propagate" THEN @ ELSE errs]
            /\ UNCHANGED waits
            /\ IF decision = "continue" /\ idx[t] < Len(provider_chain[t])
               THEN \* next provider of the chain, no suspension
                    /\ idx' = [idx EXCEPT ![t] = @ + 1]
                    /\ attempt' = [attempt EXCEPT ![t] = 1]
                    /\ pc' = [pc EXCEPT ![t] = "try"]
                    /\ running' = t
                    /\ UNCHANGED result
               ELSE /\ result' = [result EXCEPT ![t] =
                          IF decision = "continue"
                          THEN AIProviderError(<<"All providers failed. Errors: ">> \o Join(errs),
                                               "router")
                          ELSE e]
                    /\ pc' = [pc EXCEPT ![t] = "raised"]
                    /\ running' = 0
                    /\ UNCHANGED <<idx, attempt>>

\* dict.get(key): None for a key the dict does not hold.
Get(d, key) == IF key \in DOMAIN d THEN d[key] ELSE None

\* _try_provider for a provider that is not in the registry or whose registry
\* entry is None.
TryUnconfigured(t) ==
    /\ pc[t] = "try"
    /\ running \in {0, t}
    /\ Get(clients, provider_name(t)) = None
    /\ Raise(t, AIServiceError(<<"Provider '", provider_name(t), "' not configured">>,
                               provider_name(t), None))
    /\ UNCHANGED <<client_vars, router_vars, factory_vars, health_vars, input_vars, model_name, task_complexity,
                   provider_chain, original_model, invocations>>

SwapsBothAliases(p, client) == p \in {"gpt-5", "gpt-5-mini"} /\ client = "OpenAIClient"

\* The model-name swap applies to this provider identity and client.
Swaps(p, client) == p = "gpt-5-mini" /\ client = "OpenAIClient"

\* _try_provider for a configured provider, up to the network call inside
\* client.complete: the swap, then the request goes out under the client's
\* current model_name and the task suspends.
TryProvider(t) ==
    /\ pc[t] = "try"
    /\ running \in {0, t}
    /\ Get(clients, provider_name(t)) # None
    /\ LET p == provider_name(t)
           client == clients[p]
           name == IF Swaps(p, client) THEN "gpt-5-mini" ELSE model_name
       IN /\ original_model' = [original_model EXCEPT
                                  ![t] = IF Swaps(p, client) THEN model_name ELSE @]
          /\ model_name' = name
          /\ invocations' = [invocations EXCEPT ![t] =
                Append(@, [provider |-> p, client |-> client,
                           model |-> IF client = "OpenAIClient" THEN name ELSE None,
                           args |-> [prompt |-> request[t].prompt,
                                     system_prompt |-> request[t].system_prompt,
                                     temperature |-> request[t].temperature,
                                     max_tokens |-> request[t].max_tokens],
                           outcome |-> completes[client]])]
    /\ pc' = [pc EXCEPT ![t] = "awaiting"]
    /\ running' = 0
    /\ UNCHANGED <<client_vars, router_vars, factory_vars, health_vars, input_vars, task_complexity, provider_chain, idx,
                   attempt, errors, result, waits>>

\* The complete call task t is suspended in.
InFlight(t) == invocations[t][Len(invocations[t])]

RestoreModelOnSuccess(t, succeeded) ==
    IF Swaps(InFlight(t).provider, InFlight(t).client) /\ succeeded
    THEN original_model[t]
    ELSE model_name

\* The `finally` of the swap branch: the value of client.model_name once the
\* awaited complete of task t has returned or raised.
RestoreModel(t, succeeded) ==
    IF Swaps(InFlight(t).provider, InFlight(t).client)
    THEN original_model[t]
    ELSE model_name

CompleteReturnsKeepsGoing(t) ==
    /\ pc[t] = "awaiting"
    /\ running = 0
    /\ InFlight(t).outcome = "ok"
    /\ model_name' = RestoreModel(t, TRUE)
    /\ result' = [result EXCEPT ![t] =
          AIResponse(InFlight(t).model, ProviderLabel(InFlight(t).client))]
    /\ IF idx[t] < Len(provider_chain[t])
       THEN /\ idx' = [idx EXCEPT ![t] = @ + 1]
            /\ pc' = [pc EXCEPT ![t] = "try"]
            /\ running' = t
       ELSE /\ pc' = [pc EXCEPT ![t] = "returned"]
            /\ running' = 0
            /\ UNCHANGED idx
    /\ UNCHANGED <<client_vars, router_vars, factory_vars, health_vars, input_vars, task_complexity,
                   provider_chain, attempt, errors, original_model, invocations, waits>>

\* The awaited complete returns a response: route returns it.
CompleteReturns(t) ==
    /\ pc[t] = "awaiting"
    /\ running = 0
    /\ InFlight(t).outcome = "ok"
    /\ model_name' = RestoreModel(t, TRUE)
    /\ result' = [result EXCEPT ![t] =
          AIResponse(InFlight(t).model, ProviderLabel(InFlight(t).client))]
    /\ pc' = [pc EXCEPT ![t] = "returned"]
    /\ running' = 0
    /\ UNCHANGED <<client_vars, router_vars, factory_vars, health_vars, input_vars, task_complexity, provider_chain, idx,
                   attempt, errors, original_model, invocations, waits>>

\* The awaited complete raises.
CompleteFails(t) ==
    /\ pc[t] = "awaiting"
    /\ running = 0
    /\ InFlight(t).outcome # "ok"
    /\ model_name' = RestoreModel(t, FALSE)
    /\ Raise(t, CompleteRaises(InFlight(t).client, InFlight(t).outcome))
    /\ UNCHANGED <<client_vars, router_vars, factory_vars, health_vars, input_vars, task_complexity, provider_chain,
                   original_model, invocations>>

Next ==
    \E t \in Tasks :
        \/ Route(t)
        \/ TryUnconfigured(t)
        \/ TryProvider(t)
        \/ CompleteReturns(t)
        \/ CompleteFails(t)

Spec == Init /\ [][Next]_vars

\* Concurrent route calls that target the two identities of the shared OpenAI
\* client: every task prefers "gpt-5" or "gpt-5-mini".
InitAlias ==
    /\ \E constructed \in SUBSET {"OpenAIClient"} : RouterInit(constructed)
    /\ CallsInit(Tasks)
    /\ \A t \in Tasks :
          /\ task_type[t] = None
          /\ task_complexity[t] = "simple"
          /\ preferred_provider[t] \in {"gpt-5", "gpt-5-mini"}
    /\ HealthIdle
    /\ FactoryIdle
    /\ RequestDefault
    /\ SettingsDefault
    /\ ClientIdle

SpecAlias == InitAlias /\ [][Next]_vars

\* ------------------------------------------------------------------------
\* health_check_all

\* The exceptions a client's health_check may raise into health_check_all.
HealthExceptions ==
    {TimeoutError(<<"health check timeout">>),
     AIProviderError(<<"health check failed">>, "client"),
     OtherError(<<"health check crashed">>)}

HealthExceptProviderOnly(e) == IsInstance(e, "AIProviderError")

\* `except Exception` around the awaited health_check.
HealthExcept(e) == IsInstance(e, "Exception")

\* d[k] = v on a dict.
DictSet(d, k, v) == [x \in DOMAIN d \cup {k} |-> IF x = k THEN v ELSE d[x]]

\* else: results[name] = False
ReportUnconfiguredSkipped(d, name) == d

ReportUnconfigured(d, name) == DictSet(d, name, FALSE)

\* The registry entry the loop is at.
hc_name == ProviderKeys[hc_i]

\* health_check_all up to its for loop.
HealthCheckAll ==
    /\ hc_pc = "call"
    /\ results' = <<>>
    /\ hc_i' = 1
    /\ hc_pc' = "loop"
    /\ UNCHANGED <<client_vars, router_vars, factory_vars, route_vars, health_checks>>

\* An entry whose client is None: false, nothing is called.
HealthUnconfigured ==
    /\ hc_pc = "loop"
    /\ hc_i <= Len(ProviderKeys)
    /\ clients[hc_name] = None
    /\ results' = ReportUnconfigured(results, hc_name)
    /\ hc_i' = hc_i + 1
    /\ UNCHANGED <<client_vars, router_vars, factory_vars, route_vars, hc_pc, health_checks>>

\* An entry with a client: its health_check is awaited.
HealthCall ==
    /\ hc_pc = "loop"
    /\ hc_i <= Len(ProviderKeys)
    /\ clients[hc_name] # None
    /\ health_checks' = Append(health_checks,
                               [name |-> hc_name, client |-> clients[hc_name], ended |-> "pending"])
    /\ hc_pc' = "checking"
    /\ UNCHANGED <<client_vars, router_vars, factory_vars, route_vars, hc_i, results>>

\* The awaited health_check returns a boolean.
HealthReturns ==
    /\ hc_pc = "checking"
    /\ \E b \in BOOLEAN :
          /\ results' = DictSet(results, hc_name, b)
          /\ health_checks' = [health_checks EXCEPT ![Len(health_checks)].ended =
                                  IF b THEN "True" ELSE "False"]
    /\ hc_i' = hc_i + 1
    /\ hc_pc' = "loop"
    /\ UNCHANGED <<client_vars, router_vars, factory_vars, route_vars>>

\* The awaited health_check raises.
HealthRaises ==
    /\ hc_pc = "checking"
    /\ \E e \in HealthExceptions :
          IF HealthExcept(e)
          THEN /\ results' = DictSet(results, hc_name, FALSE)
               /\ hc_i' = hc_i + 1
               /\ hc_pc' = "loop"
          ELSE /\ hc_pc' = "raised"
               /\ UNCHANGED <<results, hc_i>>
    /\ health_checks' = [health_checks EXCEPT ![Len(health_checks)].ended = "raise"]
    /\ UNCHANGED <<client_vars, router_vars, factory_vars, route_vars>>

\* The loop is over: return results.
HealthDone ==
    /\ hc_pc = "loop"
    /\ hc_i > Len(ProviderKeys)
    /\ hc_pc' = "returned"
    /\ UNCHANGED <<client_vars, router_vars, factory_vars, route_vars, hc_i, results, health_checks>>

\* One health_check_all call on any router.
InitHealth ==
    /\ \E constructed \in SUBSET ClientNames : RouterInit(constructed)
    /\ openai_model \in {"gpt-5", None}
    /\ \A c \in ClientNames : completes[c] \in {"ok", None}
    /\ CallsInit({})
    /\ hc_pc = "call"
    /\ hc_i = 0
    /\ results = <<>>
    /\ health_checks = <<>>
    /\ FactoryIdle
    /\ RequestDefault
    /\ SettingsDefault
    /\ ClientIdle

NextHealth ==
    \/ HealthCheckAll
    \/ HealthUnconfigured
    \/ HealthCall
    \/ HealthReturns
    \/ HealthRaises
    \/ HealthDone

SpecHealth == InitHealth /\ [][NextHealth]_vars

\* ------------------------------------------------------------------------
\* classify_task and get_provider_chain called on their own

\* Task identifiers: the ten of the table, one that is not in it, and "".
AllTaskTypes == DOMAIN TASK_COMPLEXITY_MAP \cup {"unlisted_task", ""}

\* Tier arguments: the three tiers and a value absent from MODEL_PRIORITY.
TierValues == TaskComplexity \cup {"unlisted_tier"}

\* One call of classify_task and/or get_provider_chain on any router.
InitResolve ==
    /\ \E constructed \in SUBSET ClientNames : RouterInit(constructed)
    /\ openai_model \in {"gpt-5", None}
    /\ \A c \in ClientNames : completes[c] \in {"ok", None}
    /\ enable_fallback
    /\ pc = [t \in Tasks |-> IF t = 1 THEN "pure" ELSE "unused"]
    /\ \E tt \in AllTaskTypes :
          task_type = [t \in Tasks |-> IF t = 1 THEN tt ELSE None]
    /\ \E pp \in PreferredValues :
          preferred_provider = [t \in Tasks |-> IF t = 1 THEN pp ELSE None]
    /\ \E tc \in TierValues :
          task_complexity = [t \in Tasks |-> IF t = 1 THEN tc ELSE "moderate"]
    /\ provider_chain = [t \in Tasks |-> <<>>]
    /\ idx = [t \in Tasks |-> 0]
    /\ attempt = [t \in Tasks |-> 0]
    /\ errors = [t \in Tasks |-> <<>>]
    /\ original_model = [t \in Tasks |-> None]
    /\ result = [t \in Tasks |-> NoResult]
    /\ invocations = [t \in Tasks |-> <<>>]
    /\ waits = [t \in Tasks |-> <<>>]
    /\ HealthIdle
    /\ FactoryIdle
    /\ RequestDefault
    /\ SettingsDefault
    /\ ClientIdle

\* complexity = self.classify_task(task_type)
ClassifyTask(t) ==
    /\ pc[t] = "pure"
    /\ task_complexity' = [task_complexity EXCEPT ![t] = classify_task(task_type[t])]
    /\ pc' = [pc EXCEPT ![t] = "classified"]
    /\ UNCHANGED <<client_vars, router_vars, factory_vars, health_vars, input_vars, model_name,
                   running, provider_chain, idx, attempt, errors, original_model,
                   result, invocations, waits>>

\* self.get_provider_chain(complexity, preferred_provider)
GetProviderChain(t) ==
    /\ pc[t] \in {"pure", "classified"}
    /\ provider_chain' = [provider_chain EXCEPT
          ![t] = get_provider_chain(clients, task_complexity[t], preferred_provider[t])]
    /\ pc' = [pc EXCEPT ![t] = "resolved"]
    /\ UNCHANGED <<client_vars, router_vars, factory_vars, health_vars, input_vars, model_name,
                   running, task_complexity, idx, attempt, errors, original_model,
                   result, invocations, waits>>

NextResolve ==
    \E t \in Tasks :
        \/ ClassifyTask(t)
        \/ GetProviderChain(t)

SpecResolve == InitResolve /\ [][NextResolve]_vars

\* ------------------------------------------------------------------------
\* create_ai_router

\* The clients dict of create_ai_router: Ollama needs no key, the three
\* hosted clients need theirs; a constructor that raises is skipped.
Constructed ==
    {c \in ClientNames :
        /\ enable[c]
        /\ (c = "OllamaClient" \/ api_key[c])
        /\ ctor_ok[c]}

FactoryNeverRaises(constructed) == FALSE

\* if not clients: raise RuntimeError
FactoryRaises(constructed) == constructed = {}

\* config.openai_model, the settings default.
ConfigOpenAIModel == "gpt-4o"

\* Before create_ai_router is called: any arguments and configuration, and
\* no router.
InitFactory ==
    /\ fa_pc = "call"
    /\ enable \in [ClientNames -> BOOLEAN]
    /\ api_key \in [ClientNames -> BOOLEAN]
    /\ api_key["OllamaClient"]
    /\ ctor_ok \in [ClientNames -> BOOLEAN]
    /\ clients = [p \in Providers |-> None]
    /\ enable_fallback \in BOOLEAN
    /\ completes = [c \in ClientNames |-> None]
    /\ openai_model = None
    /\ model_name = None
    /\ running = 0
    /\ CallsInit({})
    /\ HealthIdle
    /\ RequestDefault
    /\ SettingsDefault
    /\ ClientIdle

\* create_ai_router with no client constructed.
CreateAIRouterRaises ==
    /\ fa_pc = "call"
    /\ FactoryRaises(Constructed)
    /\ fa_pc' = "raised"
    /\ UNCHANGED <<client_vars, router_vars, route_vars, health_vars, enable, api_key, ctor_ok>>

\* create_ai_router with a client constructed: the router it returns.
CreateAIRouterReturns ==
    /\ fa_pc = "call"
    /\ ~FactoryRaises(Constructed)
    /\ clients' = AIRouterClients(Constructed)
    /\ completes' = [c \in ClientNames |-> IF c \in Constructed THEN "ok" ELSE None]
    /\ openai_model' = IF "OpenAIClient" \in Constructed THEN ConfigOpenAIModel ELSE None
    /\ model_name' = IF "OpenAIClient" \in Constructed THEN ConfigOpenAIModel ELSE None
    /\ fa_pc' = "returned"
    /\ UNCHANGED <<client_vars, enable_fallback, strategy, max_retries, running, pc,
                   request, task_type, preferred_provider, task_complexity, provider_chain, idx, attempt, errors,
                   original_model, result, invocations, waits, health_vars,
                   enable, api_key, ctor_ok>>

\* A caller that holds the returned router calls route on it.
CallRoute(t) ==
    /\ fa_pc = "returned"
    /\ pc[t] = "unused"
    /\ pc' = [pc EXCEPT ![t] = "call"]
    /\ UNCHANGED <<client_vars, router_vars, factory_vars, health_vars, model_name, running,
                   request, task_type, preferred_provider, task_complexity, provider_chain,
                   idx, attempt, errors, original_model, result, invocations, waits>>

NextFactory ==
    \/ CreateAIRouterRaises
    \/ CreateAIRouterReturns
    \/ \E t \in Tasks : CallRoute(t)

SpecFactory == InitFactory /\ [][NextFactory]_vars

\* ------------------------------------------------------------------------
\* _try_provider called on its own

\* One call of _try_provider(provider_name, request) on any router, for a
\* registered identity or one the registry does not hold.  The call is the
\* body of route's loop on the one-provider chain with fallback disabled,
\* where what leaves the retry wrapper is what route raises.
InitTry ==
    /\ \E constructed \in SUBSET ClientNames : RouterInit(constructed)
    /\ openai_model \in {"gpt-5", None}
    /\ ~enable_fallback
    /\ pc = [t \in Tasks |-> IF t = 1 THEN "try" ELSE "unused"]
    /\ task_type = [t \in Tasks |-> None]
    /\ preferred_provider = [t \in Tasks |-> None]
    /\ \E tc \in TaskComplexity :
          task_complexity = [t \in Tasks |-> IF t = 1 THEN tc ELSE "moderate"]
    /\ \E p \in Providers \cup {"unregistered"} :
          provider_chain = [t \in Tasks |-> IF t = 1 THEN <<p>> ELSE <<>>]
    /\ idx = [t \in Tasks |-> IF t = 1 THEN 1 ELSE 0]
    /\ attempt = [t \in Tasks |-> IF t = 1 THEN 1 ELSE 0]
    /\ errors = [t \in Tasks |-> <<>>]
    /\ original_model = [t \in Tasks |-> None]
    /\ result = [t \in Tasks |-> NoResult]
    /\ invocations = [t \in Tasks |-> <<>>]
    /\ waits = [t \in Tasks |-> <<>>]
    /\ HealthIdle
    /\ FactoryIdle
    /\ RequestDefault
    /\ SettingsDefault
    /\ ClientIdle

NextTry ==
    \E t \in Tasks :
        \/ TryUnconfigured(t)
        \/ TryProvider(t)
        \/ CompleteReturns(t)
        \/ CompleteFails(t)

SpecTry == InitTry /\ [][NextTry]_vars

\* ------------------------------------------------------------------------
\* route with any request, and routers with any settings

\* Requests: the dataclass defaults, and one with every field set.
Requests ==
    {AIRequest("prompt"),
     [prompt |-> "question", system_prompt |-> "system", temperature |-> 0,
      max_tokens |-> 256, metadata |-> "metadata"]}

\* One route call with any request and any task_type, the empty string
\* included, on any router whose clients succeed or raise a provider error.
InitFrame ==
    /\ \E constructed \in SUBSET ClientNames : RouterInit(constructed)
    /\ openai_model \in {"gpt-5", None}
    /\ \A c \in ClientNames : completes[c] \in {"ok", "provider_error", None}
    /\ pc = [t \in Tasks |-> IF t = 1 THEN "call" ELSE "unused"]
    /\ \E tt \in TaskTypes \cup {""} :
          task_type = [t \in Tasks |-> IF t = 1 THEN tt ELSE None]
    /\ \E pp \in {None, "gemini"} :
          preferred_provider = [t \in Tasks |-> IF t = 1 THEN pp ELSE None]
    /\ \E tc \in TaskComplexity :
          task_complexity = [t \in Tasks |-> IF t = 1 THEN tc ELSE "moderate"]
    /\ provider_chain = [t \in Tasks |-> <<>>]
    /\ idx = [t \in Tasks |-> 0]
    /\ attempt = [t \in Tasks |-> 0]
    /\ errors = [t \in Tasks |-> <<>>]
    /\ original_model = [t \in Tasks |-> None]
    /\ result = [t \in Tasks |-> NoResult]
    /\ invocations = [t \in Tasks |-> <<>>]
    /\ waits = [t \in Tasks |-> <<>>]
    /\ HealthIdle
    /\ FactoryIdle
    /\ \E r \in Requests : request = [t \in Tasks |-> IF t = 1 THEN r ELSE AIRequest("prompt")]
    /\ SettingsDefault
    /\ ClientIdle

SpecFrame == InitFrame /\ [][Next]_vars

\* The strategies the constructor documents.
Strategies == {"smart", "manual", "round_robin"}

\* Values of the max_retries argument.
MaxRetriesValues == {0, 1, 3, 5}

\* One route call on any router built with any strategy and max_retries.
InitSettings ==
    /\ \E constructed \in SUBSET ClientNames : RouterInit(constructed)
    /\ openai_model \in {"gpt-5", None}
    /\ CallsInit({1})
    /\ task_type[1] \in {None, "patient_summary", "differential_diagnosis"}
    /\ preferred_provider[1] \in {None, "gpt-5-mini"}
    /\ task_complexity[1] = "moderate"
    /\ HealthIdle
    /\ FactoryIdle
    /\ RequestDefault
    /\ strategy \in Strategies
    /\ max_retries \in MaxRetriesValues
    /\ ClientIdle

SpecSettings == InitSettings /\ [][Next]_vars

\* The event loop runs every task that is ready, and every awaited complete
\* eventually returns or raises.
Fairness ==
    \A t \in Tasks :
        /\ WF_vars(Route(t))
        /\ WF_vars(TryUnconfigured(t))
        /\ WF_vars(TryProvider(t))
        /\ WF_vars(CompleteReturns(t))
        /\ WF_vars(CompleteFails(t))

SpecLive == Init /\ [][Next]_vars /\ Fairness

\* ------------------------------------------------------------------------
\* A provider client's complete

\* Python's `a or b` on Optional numbers: b when a is None or zero.
PyOr(a, b) == IF a = Absent \/ a = Some(0) THEN b ELSE a

\* The name the client's messages use for its backend.
ClientTitle(c) ==
    CASE c = "OllamaClient" -> "Ollama"
      [] c = "AnthropicClient" -> "Claude"
      [] c = "OpenAIClient" -> "OpenAI"
      [] c = "GoogleClient" -> "Google Gemini"

\* An exception with the status_code attribute set.
WithStatus(e, status_code) ==
    [f \in DOMAIN e \cup {"status_code"} |->
        IF f = "status_code" THEN status_code ELSE e[f]]

\* An exception of a backend library class.
BackendException(type, message, status_code) ==
    WithStatus([OtherError(message) EXCEPT !.type = type], status_code)

\* What may be raised inside the try block of the client's complete: the
\* backend's timeout, its API or connection error with or without a status
\* code, a provider error or a timeout raised in the body (Ollama raises a
\* provider error with the status code for an answer that is not 200), and
\* an exception of any other class.  httpx request errors carry no status.
BodyExceptions(c) ==
    {BackendException("BackendTimeout", <<"timed out">>, Absent),
     BackendException("BackendError", <<"connection failed">>, Absent),
     WithStatus(AIProviderError(<<ClientTitle(c), " request failed: ", "body">>,
                                ProviderLabel(c)), Some(500)),
     WithStatus(TimeoutError(<<"timed out in body">>), Absent),
     BackendException("KeyError", <<"response">>, Absent)}
    \cup IF c = "OllamaClient"
         THEN {}
         ELSE {BackendException("BackendError", <<"server error">>, Some(503))}

\* status_code=getattr(e, "status_code", None); the Ollama clause passes none.
ClientStatus(c, e) == IF c = "OllamaClient" THEN Absent ELSE e.status_code

\* The word of the client's message for a backend error.
ErrorWord(c) == IF c = "OllamaClient" THEN " connection error: " ELSE " API error: "

ClientExceptProviderFirst(c, e) ==
    IF IsInstance(e, "BackendError")
    THEN WithStatus(AIProviderError(<<ClientTitle(c), ErrorWord(c)>> \o Str(e),
                                    ProviderLabel(c)),
                    ClientStatus(c, e))
    ELSE IF IsInstance(e, "BackendTimeout")
    THEN WithStatus(TimeoutError(<<ClientTitle(c), " request timeout">>), Absent)
    ELSE IF IsInstance(e, "AIProviderError") \/ IsInstance(e, "TimeoutError")
    THEN e
    ELSE WithStatus(AIProviderError(<<"Unexpected ", ClientTitle(c), " error: ">> \o Str(e),
                                    ProviderLabel(c)),
                    Absent)

\* The except clauses of complete, in their order: what complete raises when
\* e was raised inside its try block.
ClientExcept(c, e) ==
    IF IsInstance(e, "BackendTimeout")
    THEN WithStatus(TimeoutError(<<ClientTitle(c), " request timeout">>), Absent)
    ELSE IF IsInstance(e, "BackendError")
    THEN WithStatus(AIProviderError(<<ClientTitle(c), ErrorWord(c)>> \o Str(e),
                                    ProviderLabel(c)),
                    ClientStatus(c, e))
    ELSE IF IsInstance(e, "AIProviderError") \/ IsInstance(e, "TimeoutError")
    THEN e
    ELSE WithStatus(AIProviderError(<<"Unexpected ", ClientTitle(c), " error: ">> \o Str(e),
                                    ProviderLabel(c)),
                    Absent)

\* Per-call arguments: absent, zero, and a positive value (0.7 and 256).
TemperatureArgs == {Absent, Some(0), Some(7)}
MaxTokensArgs == {Absent, Some(0), Some(256)}

\* One complete call on any client, with any per-call arguments, on a client
\* built with its class defaults or with other values.
InitClient ==
    /\ RouterInit({})
    /\ enable_fallback
    /\ CallsInit({})
    /\ HealthIdle
    /\ FactoryIdle
    /\ RequestDefault
    /\ SettingsDefault
    /\ co_pc = "call"
    /\ co_client \in ClientNames
    /\ temperature \in TemperatureArgs
    /\ max_tokens \in MaxTokensArgs
    /\ self_temperature \in {Some(3), Some(5)}
    /\ self_max_tokens \in {Some(2048), Some(4096)}
    /\ sent = [temperature |-> Absent, max_tokens |-> Absent]
    /\ co_raised = NoResult
    /\ co_result = NoResult

\* complete up to the awaited backend call: the request parameters.
ClientSend ==
    /\ co_pc = "call"
    /\ sent' = [temperature |-> PyOr(temperature, self_temperature),
                max_tokens |-> PyOr(max_tokens, self_max_tokens)]
    /\ co_pc' = "awaiting"
    /\ UNCHANGED <<router_vars, route_vars, health_vars, factory_vars, co_client,
                   temperature, max_tokens, self_temperature, self_max_tokens,
                   co_raised, co_result>>

\* The backend answers: complete returns an AIResponse.
ClientReturns ==
    /\ co_pc = "awaiting"
    /\ co_result' = AIResponse(None, ProviderLabel(co_client))
    /\ co_pc' = "returned"
    /\ UNCHANGED <<router_vars, route_vars, health_vars, factory_vars, co_client,
                   temperature, max_tokens, self_temperature, self_max_tokens,
                   sent, co_raised>>

\* An exception is raised inside the try block.
ClientRaises ==
    /\ co_pc = "awaiting"
    /\ \E e \in BodyExceptions(co_client) :
          /\ co_raised' = e
          /\ co_result' = ClientExcept(co_client, e)
    /\ co_pc' = "raised"
    /\ UNCHANGED <<router_vars, route_vars, health_vars, factory_vars, co_client,
                   temperature, max_tokens, self_temperature, self_max_tokens, sent>>

NextClient ==
    \/ ClientSend
    \/ ClientReturns
    \/ ClientRaises

SpecClient == InitClient /\ [][NextClient]_vars

\* ------------------------------------------------------------------------
\* Properties

Done(t) == pc[t] \in {"returned", "raised"}

\* Provider p is configured and its complete fails with a timeout or a
\* provider error whenever it is called.
Fails(p) == clients[p] # None /\ completes[clients[p]] \in {"timeout", "provider_error"}

\* Provider p is configured and its complete succeeds whenever it is called.
Succeeds(p) == clients[p] # None /\ completes[clients[p]] = "ok"

\* The _try_provider call of task t for position i of its chain is over.
TryOver(t, i) == i < idx[t] \/ (Done(t) /\ i = idx[t])

\* The failure message of provider p as its client raises it.
FailureMessage(p) == Str(CompleteRaises(clients[p], completes[clients[p]]))

\* C1: with fallback enabled and a chain of 3 providers whose 1st fails and
\* whose 2nd succeeds, route returns the 2nd provider's Response and never
\* invokes the 3rd provider's complete.
C1_FirstSuccessShortCircuit ==
    \A t \in Tasks :
        (/\ Done(t)
         /\ enable_fallback
         /\ Len(provider_chain[t]) = 3
         /\ Fails(provider_chain[t][1])
         /\ Succeeds(provider_chain[t][2]))
        => /\ pc[t] = "returned"
           /\ result[t].kind = "response"
           /\ result[t].provider = ProviderLabel(clients[provider_chain[t][2]])
           /\ Calls(t, provider_chain[t][3]) = 0

\* C2: one call of the retry wrapper for a configured provider whose complete
\* always times out invokes that complete exactly 3 times before the failure
\* propagates.
C2_RetryBound ==
    \A t \in Tasks :
        \A i \in 1..Len(provider_chain[t]) :
            (/\ TryOver(t, i)
             /\ clients[provider_chain[t][i]] # None
             /\ completes[clients[provider_chain[t][i]]] = "timeout")
            => Calls(t, provider_chain[t][i]) = 3

\* C3: with fallback enabled, when every provider of the chain fails, route
\* raises one AIProviderError attributed to "router" whose message contains
\* the failure message of each provider of the chain.
C3_AggregateErrorCompleteness ==
    \A t \in Tasks :
        (/\ Done(t)
         /\ enable_fallback
         /\ \A i \in 1..Len(provider_chain[t]) : Fails(provider_chain[t][i]))
        => /\ pc[t] = "raised"
           /\ result[t].type = "AIProviderError"
           /\ result[t].provider = "router"
           /\ \A i \in 1..Len(provider_chain[t]) :
                 Contains(result[t].message, FailureMessage(provider_chain[t][i]))

\* C4: with fallback disabled, when the first provider of the chain fails,
\* route raises and the complete of no later provider is invoked.
C4_FallbackDisabledShortCircuit ==
    \A t \in Tasks :
        (/\ Done(t)
         /\ ~enable_fallback
         /\ Fails(provider_chain[t][1]))
        => /\ pc[t] = "raised"
           /\ result[t].kind = "exception"
           /\ \A i \in 2..Len(provider_chain[t]) : Calls(t, provider_chain[t][i]) = 0

\* C4 witness: a route call on a router without fallback has raised after its
\* first provider failed, with a second provider in the chain that would have
\* succeeded.
C4_Witness ==
    /\ pc[1] = "raised"
    /\ ~enable_fallback
    /\ Len(provider_chain[1]) >= 2
    /\ Fails(provider_chain[1][1])
    /\ Calls(1, provider_chain[1][1]) >= 1
    /\ Succeeds(provider_chain[1][2])

\* C5: when route fails because of provider failures (timeout, provider
\* error, unconfigured provider, whole chain failing), the exception that
\* reaches the caller is an AIProviderError.
C5_SingleErrorShape ==
    \A t \in Tasks :
        (/\ pc[t] = "raised"
         /\ \A i \in 1..Len(invocations[t]) :
               invocations[t][i].outcome \in {"timeout", "provider_error"})
        => IsInstance(result[t], "AIProviderError")

\* C6: with fallback enabled, when the providers of the chain up to the first
\* one that succeeds are unconfigured or failing, and one of them is
\* unconfigured, route returns the Response of the one that succeeds.
C6_UnconfiguredCountsAsFailed ==
    \A t \in Tasks :
        \A j \in 2..Len(provider_chain[t]) :
            (/\ Done(t)
             /\ enable_fallback
             /\ Succeeds(provider_chain[t][j])
             /\ \A i \in 1..(j - 1) :
                   clients[provider_chain[t][i]] = None \/ Fails(provider_chain[t][i])
             /\ \E i \in 1..(j - 1) : clients[provider_chain[t][i]] = None)
            => /\ pc[t] = "returned"
               /\ result[t].kind = "response"
               /\ result[t].provider = ProviderLabel(clients[provider_chain[t][j]])

\* C7: in a single route call, whenever no complete is in flight the OpenAI
\* client's model_name is the one it had before the call, so every
\* _try_provider call for "gpt-5-mini" has restored it, on return and on raise.
C7_ModelNameRestore ==
    pc[1] # "awaiting" => model_name = openai_model

\* C7 witness: a call for "gpt-5-mini" went out under the swapped name on a
\* client constructed with another name, and its complete raised.
C7_Witness ==
    /\ pc[1] = "raised"
    /\ Len(invocations[1]) >= 1
    /\ invocations[1][1].provider = "gpt-5-mini"
    /\ invocations[1][1].model = "gpt-5-mini"
    /\ invocations[1][1].outcome # "ok"
    /\ openai_model = "gpt-5"

\* C8: for concurrent route calls that target "gpt-5" and "gpt-5-mini",
\* whenever no call is in flight the OpenAI client's model_name is the name
\* the client was constructed with.
C8_SwapNeverPersists ==
    (\A t \in Tasks : pc[t] \in {"call", "returned", "raised"})
    => model_name = openai_model

\* C9: health_check_all never raises; when it returns, every client whose
\* health_check raised is reported false and every other configured client
\* is reported with the boolean its health_check returned.
C9_HealthCheckIsolation ==
    /\ hc_pc # "raised"
    /\ hc_pc = "returned" =>
          \A k \in 1..Len(health_checks) :
              /\ health_checks[k].name \in DOMAIN results
              /\ results[health_checks[k].name] = (health_checks[k].ended = "True")

\* C9 witness: health_check_all returned after one health_check raised and a
\* later one returned true.
C9_Witness ==
    /\ hc_pc = "returned"
    /\ \E j, k \in 1..Len(health_checks) :
          /\ j < k
          /\ health_checks[j].ended = "raise"
          /\ health_checks[k].ended = "True"
          /\ results[health_checks[k].name]
          /\ ~results[health_checks[j].name]

DocumentedChain(tier) ==
    CASE tier = "simple" -> <<"ollama">>
      [] tier = "moderate" -> <<"ollama", "gpt-5-mini">>
      [] tier = "complex" -> <<"claude", "gpt-5", "gemini", "ollama">>
      [] OTHER -> <<"ollama">>

RegisteredKeys == {"ollama", "claude", "gpt-5", "gpt-5-mini", "gemini"}

\* Number of positions of seq that hold x.
Count(seq, x) == Cardinality({i \in 1..Len(seq) : seq[i] = x})

\* C11: for a registered preferred provider the chain is preferred followed by
\* the tier's standard chain without preferred, order kept, so preferred is
\* first and occurs once; otherwise the chain is the tier's standard chain.
C11_ChainResolution ==
    \A t \in Tasks :
        pc[t] = "resolved" =>
            LET std == DocumentedChain(task_complexity[t])
                pref == preferred_provider[t]
                chain == provider_chain[t]
            IN IF pref \in RegisteredKeys
               THEN /\ Len(chain) = 1 + Len(std) - Count(std, pref)
                    /\ chain[1] = pref
                    /\ Count(chain, pref) = 1
                    /\ \A i \in 1..(Len(chain) - 1) :
                          chain[i + 1] =
                              std[i + Cardinality({j \in 1..i : std[j] = pref})]
               ELSE chain = std

\* C11 witness: gemini preferred for a complex task moved gemini to the front
\* of the complex chain.
C11_Witness ==
    /\ pc[1] = "resolved"
    /\ task_complexity[1] = "complex"
    /\ preferred_provider[1] = "gemini"
    /\ provider_chain[1] = <<"gemini", "claude", "gpt-5", "ollama">>

\* C12: get_provider_chain returns a non-empty chain for every tier and every
\* preferred value; for a tier absent from the priority table and no
\* registered preferred provider it returns [ollama].
C12_ChainNonEmpty ==
    \A t \in Tasks :
        pc[t] = "resolved" =>
            /\ Len(provider_chain[t]) >= 1
            /\ (task_complexity[t] \notin {"simple", "moderate", "complex"}
                /\ preferred_provider[t] \notin RegisteredKeys)
               => provider_chain[t] = <<"ollama">>

\* C12 witness: a chain was resolved for a tier absent from the table with an
\* unregistered preferred provider.
C12_Witness ==
    /\ pc[1] = "resolved"
    /\ task_complexity[1] = "unlisted_tier"
    /\ preferred_provider[1] = "unregistered"
    /\ Len(provider_chain[1]) = 1

\* C13: classify_task returns SIMPLE, MODERATE or COMPLEX for every task
\* identifier: the table's tier for the ten known identifiers and MODERATE for
\* any other.
C13_ClassificationTotality ==
    \A t \in Tasks :
        pc[t] = "classified" =>
            /\ task_complexity[t] \in {"simple", "moderate", "complex"}
            /\ task_type[t] \in {"patient_summary", "basic_stats", "recent_visits"}
               => task_complexity[t] = "simple"
            /\ task_type[t] \in {"lab_trend_analysis", "medication_adherence", "visit_patterns"}
               => task_complexity[t] = "moderate"
            /\ task_type[t] \in {"differential_diagnosis", "treatment_planning",
                                 "drug_interactions", "risk_stratification"}
               => task_complexity[t] = "complex"
            /\ task_type[t] \notin
                  {"patient_summary", "basic_stats", "recent_visits",
                   "lab_trend_analysis", "medication_adherence", "visit_patterns",
                   "differential_diagnosis", "treatment_planning",
                   "drug_interactions", "risk_stratification"}
               => task_complexity[t] = "moderate"

\* C13 witness: an identifier that is not in the table was classified.
C13_Witness ==
    /\ pc[1] = "classified"
    /\ task_type[1] = "unlisted_task"
    /\ task_complexity[1] = "moderate"

\* Scenario B: a finished route call for a differential diagnosis with gemini
\* preferred, every provider configured, claude and gpt-5 always failing and
\* gemini succeeding.
ScenarioB(t) ==
    /\ Done(t)
    /\ task_type[t] = "differential_diagnosis"
    /\ preferred_provider[t] = "gemini"
    /\ \A p \in DOMAIN clients : clients[p] # None
    /\ Fails("claude")
    /\ Fails("gpt-5")
    /\ Succeeds("gemini")

\* C14: in scenario B the chain is [gemini, claude, gpt-5, ollama], route
\* returns gemini's Response and ollama's complete is never called.
C14_ScenarioBOutcome ==
    \A t \in Tasks :
        ScenarioB(t) =>
            /\ provider_chain[t] = <<"gemini", "claude", "gpt-5", "ollama">>
            /\ pc[t] = "returned"
            /\ result[t].kind = "response"
            /\ result[t].provider = ProviderLabel(clients["gemini"])
            /\ Calls(t, "ollama") = 0

\* C14 witness: scenario B has run and route returned a Response.
C14_Witness ==
    /\ ScenarioB(1)
    /\ result[1].kind = "response"

\* C15 as stated: in scenario B claude's complete and gpt-5's complete are
\* each attempted exactly 3 times.
C15_ScenarioBAttemptCounts ==
    \A t \in Tasks :
        ScenarioB(t) => Calls(t, "claude") = 3 /\ Calls(t, "gpt-5") = 3

\* C15 amended: in scenario B gemini is tried first and succeeds, so claude's
\* complete and gpt-5's complete are never invoked.
C15_ScenarioBNoAttempts ==
    \A t \in Tasks :
        ScenarioB(t) =>
            /\ Calls(t, "claude") = 0
            /\ Calls(t, "gpt-5") = 0
            /\ Calls(t, "gemini") = 1

\* C15 witness: scenario B has run with gemini's complete as the only call.
C15_Witness ==
    /\ ScenarioB(1)
    /\ Len(invocations[1]) = 1
    /\ invocations[1][1].provider = "gemini"

\* Client c is enabled, has its credentials and its constructor returns.
Usable(c) ==
    /\ enable[c]
    /\ ctor_ok[c]
    /\ c \in {"AnthropicClient", "OpenAIClient", "GoogleClient"} => api_key[c]

\* C16: create_ai_router raises when no client is constructed, and then no
\* router exists and no route call is made; otherwise it returns a router
\* whose registry holds the constructed clients and None for the rest.
C16_FactoryScenarioC ==
    /\ (fa_pc # "call" /\ \A c \in ClientNames : ~Usable(c))
       => /\ fa_pc = "raised"
          /\ \A p \in DOMAIN clients : clients[p] = None
          /\ \A t \in Tasks : pc[t] = "unused"
    /\ (fa_pc # "call" /\ \E c \in ClientNames : Usable(c))
       => /\ fa_pc = "returned"
          /\ clients["ollama"] = IF Usable("OllamaClient") THEN "OllamaClient" ELSE None
          /\ clients["claude"] = IF Usable("AnthropicClient") THEN "AnthropicClient" ELSE None
          /\ clients["gpt-5"] = IF Usable("OpenAIClient") THEN "OpenAIClient" ELSE None
          /\ clients["gpt-5-mini"] = IF Usable("OpenAIClient") THEN "OpenAIClient" ELSE None
          /\ clients["gemini"] = IF Usable("GoogleClient") THEN "GoogleClient" ELSE None

\* C16 witness: create_ai_router raised with Ollama enabled but failing to
\* construct and Claude enabled without a key.
C16_Witness ==
    /\ fa_pc = "raised"
    /\ enable["OllamaClient"]
    /\ ~ctor_ok["OllamaClient"]
    /\ enable["AnthropicClient"]
    /\ ~api_key["AnthropicClient"]

\* C17: when the first provider of the chain is configured and its complete
\* succeeds, route returns its Response after exactly one complete call, with
\* no retry and no other provider invoked.
C17_FirstAttemptSuccess ==
    \A t \in Tasks :
        (Done(t) /\ Succeeds(provider_chain[t][1]))
        => /\ pc[t] = "returned"
           /\ Len(invocations[t]) = 1
           /\ invocations[t][1].provider = provider_chain[t][1]
           /\ waits[t] = <<>>
           /\ result[t].kind = "response"
           /\ result[t].provider = ProviderLabel(clients[provider_chain[t][1]])

\* C17 witness: a differential diagnosis was answered by claude at the head
\* of the four-provider chain.
C17_Witness ==
    /\ pc[1] = "returned"
    /\ task_type[1] = "differential_diagnosis"
    /\ Len(provider_chain[1]) = 4
    /\ provider_chain[1][1] = "claude"
    /\ Calls(1, "claude") = 1

\* A finished route call for a patient summary, no preferred provider, on a
\* router with ollama and claude configured, where ollama's complete fails.
SimpleTaskOllamaFails(t) ==
    /\ Done(t)
    /\ task_type[t] = "patient_summary"
    /\ preferred_provider[t] = None
    /\ clients["ollama"] # None
    /\ clients["claude"] # None
    /\ completes["OllamaClient"] # "ok"

C19_ProviderLabel ==
    \A t \in Tasks :
        (pc[t] = "returned" /\ provider_name(t) \in {"ollama", "claude", "gemini"})
        => result[t].provider = provider_name(t)

\* The position of provider p in the chain of task t.
PosInChain(t, p) == CHOOSE i \in 1..Len(provider_chain[t]) : provider_chain[t][i] = p

SentUnderSwappedModel(t, i) ==
    /\ invocations[t][i].provider = "gpt-5"
    /\ invocations[t][i].model = "gpt-5-mini"
    /\ openai_model # "gpt-5-mini"

\* C21: a "gpt-5" call issues its request under model "gpt-5-mini" only by
\* reading the name another call on the router swapped in as "gpt-5-mini";
\* the interleaving where it does so while that call is still suspended in
\* complete is reachable (the witness).
C21_RaceNeedsAliasedCall ==
    \A t \in Tasks :
        \A i \in 1..Len(invocations[t]) :
            SentUnderSwappedModel(t, i) =>
                \E u \in Tasks \ {t} :
                    \E j \in 1..Len(invocations[u]) :
                        invocations[u][j].provider = "gpt-5-mini"

\* C21 witness: a "gpt-5-mini" call is suspended in complete after its swap
\* and a concurrent "gpt-5" call has sent its request under "gpt-5-mini".
C21_Witness ==
    \E t, u \in Tasks :
        /\ t # u
        /\ pc[u] = "awaiting"
        /\ InFlight(u).provider = "gpt-5-mini"
        /\ pc[t] = "awaiting"
        /\ SentUnderSwappedModel(t, Len(invocations[t]))

C23_MissingConfigurationTerminal ==
    \A t \in Tasks :
        (Done(t) /\ Get(clients, provider_chain[t][1]) = None)
        => /\ pc[t] = "raised"
           /\ attempt[t] = 1
           /\ waits[t] = <<>>
           /\ invocations[t] = <<>>
           /\ result[t] = AIServiceError(<<"Provider '", provider_chain[t][1], "' not configured">>,
                                         provider_chain[t][1], None)

\* C23 witness: _try_provider was called for an identity that is not a key of
\* the registry, on a router that has a client, and has raised.
C23_Witness ==
    /\ pc[1] = "raised"
    /\ provider_chain[1] = <<"unregistered">>
    /\ clients["ollama"] # None
    /\ result[1].type = "AIServiceError"

\* route was called with a task_type (`if task_type:` takes None and the
\* empty string as no task_type).
TaskTypeGiven(t) == task_type[t] # None /\ task_type[t] # ""

\* The arguments complete is called with for the request of task t.
RequestArgs(t) ==
    [prompt |-> request[t].prompt, system_prompt |-> request[t].system_prompt,
     temperature |-> request[t].temperature, max_tokens |-> request[t].max_tokens]

C25_BoundedWorkAndTermination ==
    /\ [](\A t \in Tasks :
             /\ \A p \in Providers : Calls(t, p) <= StopAfterAttempt
             /\ Len(invocations[t]) <= StopAfterAttempt * Len(provider_chain[t]))
    /\ \A t \in Tasks : (pc[t] = "call") ~> Done(t)

\* C25 witness: a route call on a chain of four providers has ended after a
\* complete call that failed.
C25_Witness ==
    /\ Done(1)
    /\ Len(provider_chain[1]) = 4
    /\ Len(invocations[1]) >= 1
    /\ invocations[1][1].outcome = "timeout"

\* C26: what a client's complete raises is a TimeoutError or an
\* AIProviderError: the backend's timeout becomes a TimeoutError, the
\* backend's API or connection error becomes an AIProviderError of the client
\* with the error's status code and text, a TimeoutError or AIProviderError
\* raised in the body is raised unchanged, and an exception of any other
\* class becomes an AIProviderError of the client with its text.
C26_ClientExceptionNormalization ==
    co_pc = "raised" =>
        /\ co_result.type \in {"TimeoutError", "AIProviderError"}
        /\ co_raised.type = "BackendTimeout" => co_result.type = "TimeoutError"
        /\ co_raised.type = "BackendError"
           => /\ co_result.type = "AIProviderError"
              /\ co_result.provider = ProviderLabel(co_client)
              /\ co_result.status_code = co_raised.status_code
              /\ Contains(co_result.message, co_raised.message)
        /\ co_raised.type \in {"TimeoutError", "AIProviderError"} => co_result = co_raised
        /\ co_raised.type \notin {"BackendTimeout", "BackendError", "TimeoutError", "AIProviderError"}
           => /\ co_result.type = "AIProviderError"
              /\ co_result.provider = ProviderLabel(co_client)
              /\ Contains(co_result.message, co_raised.message)

\* C26 witness: the backend's timeout exception was raised in the OpenAI
\* client's complete, which raised a TimeoutError.
C26_Witness ==
    /\ co_pc = "raised"
    /\ co_client = "OpenAIClient"
    /\ co_raised.type = "BackendTimeout"
    /\ co_result.type = "TimeoutError"

\* C27: the temperature and max_tokens complete sends to the backend are the
\* per-call values whenever those are supplied, zero included, and the
\* client's defaults only when the per-call value is None.
C27_PerCallOverrides ==
    co_pc \in {"awaiting", "returned", "raised"} =>
        /\ sent.temperature = IF temperature # Absent THEN temperature ELSE self_temperature
        /\ sent.max_tokens = IF max_tokens # Absent THEN max_tokens ELSE self_max_tokens

C29_PreferredTestedOnKeys ==
    \A t \in Tasks :
        (pc[t] \notin {"unused", "call"}
         /\ preferred_provider[t] \in {"ollama", "claude", "gpt-5", "gpt-5-mini", "gemini"})
        => /\ provider_chain[t][1] = preferred_provider[t]
           /\ (Done(t) /\ clients[preferred_provider[t]] = None)
              => /\ invocations[t] = <<>>
                 /\ idx[t] = 1
                 /\ pc[t] = "raised"
                 /\ result[t] = AIServiceError(<<"Provider '", preferred_provider[t],
                                                 "' not configured">>,
                                               preferred_provider[t], None)

\* C29 witness: a patient summary was routed with the unconfigured claude
\* preferred on a router whose ollama client would have answered.
C29_Witness ==
    /\ Done(1)
    /\ task_type[1] = "patient_summary"
    /\ preferred_provider[1] = "claude"
    /\ clients["claude"] = None
    /\ Succeeds("ollama")
    /\ provider_chain[1] = <<"claude", "ollama">>

\* The model the request of a complete call under identity p goes out with,
\* when no other call is in flight.
ModelOf(p) ==
    IF clients[p] # "OpenAIClient" THEN None
    ELSE IF p = "gpt-5-mini" THEN "gpt-5-mini"
    ELSE openai_model

====
